---- MODULE Spec2Model ----
(***************************************************************************)
(* ChromeNativeBridge (src/src/main.ts): the length-prefixed framing of    *)
(* Chrome's native messaging protocol over an inbound and an outbound      *)
(* byte stream.  Bytes are numbers 0..255, texts are sequences of code     *)
(* points, frames are sequences of bytes.                                  *)
(***************************************************************************)
EXTENDS Integers, Sequences, FiniteSets, TLC

(***************************************************************************)
(* Bounds of the model.                                                    *)
(***************************************************************************)
\* data chunks the inbound stream produces in one run
MaxChunks == 5
\* calls of emit() in one run of the sending side
MaxEmits == 2
\* calls of emit() in one run of the whole bridge
MaxExchange == 1
\* a handler that closes the bridge does so in one of its first MaxReact
\* invocations of a chunk
MaxReact == 2

(***************************************************************************)
(* Texts and buffers.                                                      *)
(***************************************************************************)
\* code points of the characters JSON texts are made of, and U+FFFD, which
\* Buffer.toString() puts in place of bytes that are not UTF-8
Ch == [quote |-> 34, comma |-> 44, zero |-> 48, colon |-> 58,
       backslash |-> 92, lbracket |-> 91, rbracket |-> 93,
       lbrace |-> 123, rbrace |-> 125, replacement |-> 65533]
Text == [null |-> <<110, 117, 108, 108>>,
         true |-> <<116, 114, 117, 101>>,
         false |-> <<102, 97, 108, 115, 101>>]

Slice(buf, n) == SubSeq(buf, n + 1, Len(buf))

\* Buffer.from(string): the UTF-8 bytes of a text (code points below 2^16)
RECURSIVE BufferFrom(_)
BufferFrom(text) ==
  IF text = <<>> THEN <<>>
  ELSE LET c == Head(text)
           bytes == IF c < 128 THEN <<c>>
                    ELSE IF c < 2048
                         THEN <<192 + (c \div 64), 128 + (c % 64)>>
                         ELSE <<224 + (c \div 4096),
                                128 + ((c \div 64) % 64),
                                128 + (c % 64)>>
       IN bytes \o BufferFrom(Tail(text))

IsContinuation(b) == b >= 128 /\ b < 192

\* Buffer.toString('latin1') in its place: every byte is a character
BufferToString_latin1(buf) == buf

\* Buffer.toString(): the text of UTF-8 bytes; a byte that does not start
\* or continue a well-formed sequence decodes to U+FFFD
RECURSIVE BufferToString(_)
BufferToString(buf) ==
  IF buf = <<>> THEN <<>>
  ELSE LET b == Head(buf)
           n == Len(buf)
       IN IF b < 128 THEN <<b>> \o BufferToString(Tail(buf))
          ELSE IF b >= 194 /\ b < 224 /\ n >= 2 /\ IsContinuation(buf[2])
               THEN <<(b - 192) * 64 + (buf[2] - 128)>>
                    \o BufferToString(Slice(buf, 2))
          ELSE IF b >= 224 /\ b < 240 /\ n >= 3
                  /\ IsContinuation(buf[2]) /\ IsContinuation(buf[3])
                  /\ (b - 224) * 4096 + (buf[2] - 128) * 64 >= 2048
               THEN <<(b - 224) * 4096 + (buf[2] - 128) * 64 + (buf[3] - 128)>>
                    \o BufferToString(Slice(buf, 3))
          ELSE <<Ch.replacement>> \o BufferToString(Tail(buf))

\* An unsigned 32-bit integer, as its two 16-bit halves: the values from
\* 2^31 on, which a length field can hold, are beyond the integers of TLC.
UInt32(n) == [hi |-> n \div 65536, lo |-> n % 65536]

\* n >= u, for a buffer length n
AtLeast(n, u) == (n \div 65536) > u.hi \/ ((n \div 65536) = u.hi /\ (n % 65536) >= u.lo)

\* the number u, where it is the length of a buffer
AsLength(u) == u.hi * 65536 + u.lo

\* Buffer.readUInt16LE(0) in its place
ReadUInt32LE_16(buf) ==
  [hi |-> 0, lo |-> buf[1] + buf[2] * 256]

\* Buffer.readUInt32BE(0) in its place
ReadUInt32BE(buf) ==
  [hi |-> buf[2] + buf[1] * 256, lo |-> buf[4] + buf[3] * 256]

\* Buffer.readUInt32LE(0)
ReadUInt32LE(buf) ==
  [hi |-> buf[3] + buf[4] * 256, lo |-> buf[1] + buf[2] * 256]

\* Buffer.alloc(4).writeUInt32LE(n)
WriteUInt32LE(n) ==
  LET u == UInt32(n)
  IN <<u.lo % 256, u.lo \div 256, u.hi % 256, u.hi \div 256>>

(***************************************************************************)
(* JavaScript values, as far as JSON.stringify and JSON.parse tell them    *)
(* apart.  An object is the sequence of its members in insertion order.    *)
(***************************************************************************)
Null == [t |-> "null"]
Bool(b) == [t |-> "bool", b |-> b]
Num(n) == [t |-> "num", n |-> n]
Str(s) == [t |-> "str", s |-> s]
Arr(a) == [t |-> "arr", a |-> a]
Obj(o) == [t |-> "obj", o |-> o]
\* values that are not JSON values
NaN == [t |-> "nan"]
Undefined == [t |-> "undefined"]
\* cyclic = {}; cyclic.a = cyclic
Cyclic == [t |-> "cyclic"]

RECURSIVE DigitsOf(_)
DigitsOf(n) ==
  IF n < 10 THEN <<Ch.zero + n>> ELSE DigitsOf(n \div 10) \o <<Ch.zero + (n % 10)>>

Quoted(s) == <<Ch.quote>> \o s \o <<Ch.quote>>

\* JSON.stringify(data): [kind |-> "text", text |-> ...], or "undefined" when
\* there is nothing to serialise, or "throw" for a cyclic structure.  Strings
\* of the model hold no character that JSON escapes.
RECURSIVE JSONStringify(_)
RECURSIVE StringifyElements(_, _)
RECURSIVE StringifyMembers(_, _)
JSONStringify(v) ==
  CASE v.t = "null" -> [kind |-> "text", text |-> Text.null]
    [] v.t = "nan" -> [kind |-> "text", text |-> Text.null]
    [] v.t = "bool" ->
         [kind |-> "text",
          text |-> IF v.b THEN Text.true
                          ELSE Text.false]
    [] v.t = "num" -> [kind |-> "text", text |-> DigitsOf(v.n)]
    [] v.t = "str" -> [kind |-> "text", text |-> Quoted(v.s)]
    [] v.t = "arr" ->
         LET r == StringifyElements(v.a, 1)
         IN IF r.kind = "throw" THEN r
            ELSE [kind |-> "text",
                  text |-> <<Ch.lbracket>> \o r.text \o <<Ch.rbracket>>]
    [] v.t = "obj" ->
         LET r == StringifyMembers(v.o, TRUE)
         IN IF r.kind = "throw" THEN r
            ELSE [kind |-> "text",
                  text |-> <<Ch.lbrace>> \o r.text \o <<Ch.rbrace>>]
    [] v.t = "undefined" -> [kind |-> "undefined"]
    [] OTHER -> [kind |-> "throw"]

\* the elements of an array from index i on; undefined serialises as null
StringifyElements(a, i) ==
  IF i > Len(a) THEN [kind |-> "text", text |-> <<>>]
  ELSE LET e == JSONStringify(a[i])
           rest == StringifyElements(a, i + 1)
           text == IF e.kind = "undefined" THEN Text.null
                   ELSE e.text
       IN IF e.kind = "throw" \/ rest.kind = "throw" THEN [kind |-> "throw"]
          ELSE [kind |-> "text",
                text |-> (IF i > 1 THEN <<Ch.comma>> ELSE <<>>)
                         \o text \o rest.text]

\* the members of an object; a member whose value is undefined is left out
StringifyMembers(o, first) ==
  IF o = <<>> THEN [kind |-> "text", text |-> <<>>]
  ELSE LET e == JSONStringify(Head(o).v)
           skip == e.kind = "undefined"
           rest == StringifyMembers(Tail(o), first /\ skip)
       IN IF e.kind = "throw" \/ rest.kind = "throw" THEN [kind |-> "throw"]
          ELSE IF skip THEN rest
          ELSE [kind |-> "text",
                text |-> (IF first THEN <<>> ELSE <<Ch.comma>>)
                         \o Quoted(Head(o).k) \o <<Ch.colon>> \o e.text
                         \o rest.text]

(***************************************************************************)
(* JSON.parse(text): a recursive descent over the text.  The grammar is    *)
(* JSON's, less what no text of the model contains: negative and           *)
(* fractional numbers, exponents and escapes in strings are not            *)
(* recognised.                                                             *)
(***************************************************************************)
Fail == [ok |-> FALSE, value |-> Null, next |-> 0]
Parsed(v, n) == [ok |-> TRUE, value |-> v, next |-> n]

IsWhitespace(c) == c \in {9, 10, 13, 32}
IsDigit(c) == c >= Ch.zero /\ c <= Ch.zero + 9

RECURSIVE SkipWhitespace(_, _)
SkipWhitespace(s, i) ==
  IF i <= Len(s) /\ IsWhitespace(s[i]) THEN SkipWhitespace(s, i + 1) ELSE i

StartsWith(s, i, word) ==
  /\ i + Len(word) - 1 <= Len(s)
  /\ SubSeq(s, i, i + Len(word) - 1) = word

\* the index after the digits that start at i
RECURSIVE DigitsEnd(_, _)
DigitsEnd(s, i) ==
  IF i <= Len(s) /\ IsDigit(s[i]) THEN DigitsEnd(s, i + 1) ELSE i

RECURSIVE DigitsValue(_)
DigitsValue(d) ==
  IF d = <<>> THEN 0
  ELSE DigitsValue(SubSeq(d, 1, Len(d) - 1)) * 10 + (d[Len(d)] - Ch.zero)

\* the index of the quote that closes the string opened before i, or 0
RECURSIVE StringEnd(_, _)
StringEnd(s, i) ==
  IF i > Len(s) THEN 0
  ELSE IF s[i] = Ch.quote THEN i
  ELSE IF s[i] < 32 \/ s[i] = Ch.backslash THEN 0
  ELSE StringEnd(s, i + 1)

\* a member added to an object: a repeated key keeps its place and takes
\* the later value
RECURSIVE PutMember(_, _, _)
PutMember(o, k, v) ==
  IF o = <<>> THEN <<[k |-> k, v |-> v]>>
  ELSE IF Head(o).k = k THEN <<[k |-> k, v |-> v]>> \o Tail(o)
  ELSE <<Head(o)>> \o PutMember(Tail(o), k, v)

RECURSIVE ParseValue(_, _)
RECURSIVE ParseElements(_, _, _)
RECURSIVE ParseMembers(_, _, _)
ParseValue(s, i) ==
  IF i > Len(s) THEN Fail
  ELSE IF StartsWith(s, i, Text.null) THEN Parsed(Null, i + 4)
  ELSE IF StartsWith(s, i, Text.true) THEN Parsed(Bool(TRUE), i + 4)
  ELSE IF StartsWith(s, i, Text.false) THEN Parsed(Bool(FALSE), i + 5)
  ELSE IF s[i] = Ch.zero THEN Parsed(Num(0), i + 1)
  ELSE IF IsDigit(s[i])
       THEN LET j == DigitsEnd(s, i)
            IN Parsed(Num(DigitsValue(SubSeq(s, i, j - 1))), j)
  ELSE IF s[i] = Ch.quote
       THEN LET j == StringEnd(s, i + 1)
            IN IF j = 0 THEN Fail
               ELSE Parsed(Str(SubSeq(s, i + 1, j - 1)), j + 1)
  ELSE IF s[i] = Ch.lbracket
       THEN LET j == SkipWhitespace(s, i + 1)
            IN IF j <= Len(s) /\ s[j] = Ch.rbracket
               THEN Parsed(Arr(<<>>), j + 1)
               ELSE ParseElements(s, j, <<>>)
  ELSE IF s[i] = Ch.lbrace
       THEN LET j == SkipWhitespace(s, i + 1)
            IN IF j <= Len(s) /\ s[j] = Ch.rbrace
               THEN Parsed(Obj(<<>>), j + 1)
               ELSE ParseMembers(s, j, <<>>)
  ELSE Fail

\* value (, value)* ] from index i on
ParseElements(s, i, acc) ==
  LET e == ParseValue(s, i)
      j == SkipWhitespace(s, e.next)
  IN IF ~e.ok \/ j > Len(s) THEN Fail
     ELSE IF s[j] = Ch.comma
          THEN ParseElements(s, SkipWhitespace(s, j + 1), Append(acc, e.value))
     ELSE IF s[j] = Ch.rbracket THEN Parsed(Arr(Append(acc, e.value)), j + 1)
     ELSE Fail

\* "key" : value (, "key" : value)* } from index i on
ParseMembers(s, i, acc) ==
  LET k == IF i <= Len(s) /\ s[i] = Ch.quote THEN ParseValue(s, i) ELSE Fail
      c == SkipWhitespace(s, k.next)
      e == IF k.ok /\ c <= Len(s) /\ s[c] = Ch.colon
           THEN ParseValue(s, SkipWhitespace(s, c + 1))
           ELSE Fail
      j == SkipWhitespace(s, e.next)
  IN IF ~e.ok \/ j > Len(s) THEN Fail
     ELSE IF s[j] = Ch.comma
          THEN ParseMembers(s, SkipWhitespace(s, j + 1),
                            PutMember(acc, k.value.s, e.value))
     ELSE IF s[j] = Ch.rbrace
          THEN Parsed(Obj(PutMember(acc, k.value.s, e.value)), j + 1)
     ELSE Fail

\* JSON.parse(text): [ok |-> TRUE, value |-> ...], or ok FALSE where
\* JSON.parse throws a SyntaxError
JSONParse(text) ==
  LET r == ParseValue(text, SkipWhitespace(text, 1))
  IN IF r.ok /\ SkipWhitespace(text, r.next) > Len(text)
     THEN [ok |-> TRUE, value |-> r.value]
     ELSE [ok |-> FALSE, value |-> Null]

(***************************************************************************)
(* The bridge.                                                             *)
(***************************************************************************)
(***************************************************************************)
(* The arguments of the process.                                           *)
(***************************************************************************)
\* the texts of the arguments, as sequences of char codes
Arg == [equals |-> 61,
        option |-> <<45, 45, 112, 97, 114, 101, 110, 116, 45, 119, 105, 110,
                     100, 111, 119, 61>>,
        origin |-> <<105, 100>>,
        invalid |-> <<105, 110, 118, 97, 108, 105, 100, 45, 112, 97, 114,
                      101, 110, 116, 45, 119, 105, 110, 100, 111, 119>>,
        handle |-> <<54, 55, 50, 48, 48>>,
        five |-> <<53>>,
        six |-> <<54>>,
        letters |-> <<97, 98, 99>>,
        prefix |-> <<120>>]

\* String.prototype.includes(search)
includes(text, search) ==
  \E i \in 1..(Len(text) - Len(search) + 1) :
    SubSeq(text, i, i + Len(search) - 1) = search

\* String.prototype.split(separator), the separator being one character
RECURSIVE split(_, _)
split(text, separator) ==
  LET at == { i \in 1..Len(text) : text[i] = separator }
  IN IF at = {} THEN <<text>>
     ELSE LET i == CHOOSE i \in at : \A j \in at : i <= j
          IN <<SubSeq(text, 1, i - 1)>> \o split(Slice(text, i), separator)

\* Number(text), for a text of digits and letters: the empty text is 0, a
\* text of decimal digits is its value, any other is NaN
Number(text) ==
  IF \A i \in DOMAIN text : IsDigit(text[i])
  THEN Num(DigitsValue(text))
  ELSE NaN

\* parseAndAssignArgs(args): the fields it assigns; a field it does not
\* assign, and an argument that is not there, are undefined
parseAndAssignArgs(argv) ==
  LET arg3 == IF Len(argv) >= 4 THEN argv[4] ELSE <<>>
      parts == split(arg3, Arg.equals)
      parentWindow == IF Len(parts) >= 2 THEN parts[2] ELSE <<>>
  IN [origin |-> IF Len(argv) >= 3 THEN Str(argv[3]) ELSE Undefined,
      parentWindow |->
        IF arg3 # <<>> /\ includes(arg3, Arg.option) /\ parentWindow # <<>>
        THEN Number(parentWindow)
        ELSE Undefined]

VARIABLES
  \* the arguments given to the constructor, and the fields origin and
  \* parentWindow
  args, origin, parentWindow,
  \* the fields of ChromeNativeBridge
  hasNextMessageLength, nextMessageLength, nextMessageBuffer,
  \* onDataChunk is a 'data' listener of the input
  listening,
  \* options.mirrorInputTo and options.mirrorOutputTo are given
  mirrorInputTo, mirrorOutputTo,
  \* the input stream: the bytes it will still produce, the chunks it has
  \* produced, and whether it has emitted 'end'
  input, inputChunks, inputEnded,
  \* the chunks written to options.mirrorInputTo
  inputMirror,
  \* the buffers the PassThrough before the output still holds, and the
  \* buffers written to the output and to options.mirrorOutputTo
  outputProxy, output, outputMirror,
  \* the invocations of onMessage, onError and onEnd, in order
  calls,
  \* the calls of emit(): the data and whether the call threw
  emits,
  \* the operation that led to the state
  lastOp

vars == <<hasNextMessageLength, nextMessageLength, nextMessageBuffer,
          listening, mirrorInputTo, mirrorOutputTo, input, inputChunks,
          inputEnded, inputMirror, outputProxy, output, outputMirror,
          calls, emits, lastOp, args, origin, parentWindow>>

decoderVars == <<hasNextMessageLength, nextMessageLength, nextMessageBuffer>>
inputVars == <<input, inputChunks, inputEnded, inputMirror>>
outputVars == <<outputProxy, output, outputMirror>>
optionVars == <<mirrorInputTo, mirrorOutputTo, args, origin, parentWindow>>

\* chromeMessage(data) of the tests: the frame a peer sends for a payload
chromeMessage(data) == WriteUInt32LE(Len(data)) \o data

\* payloads a peer sends: 7, "e-acute", {"a":7}, [], the malformed { of the
\* tests, and a string cut inside the two bytes of its character
Payload == [seven |-> <<55>>,
            eacute |-> <<34, 195, 169, 34>>,
            object |-> <<123, 34, 97, 34, 58, 55, 125>>,
            array |-> <<91, 93>>,
            null |-> <<110, 117, 108, 108>>,
            brace |-> <<123>>,
            cut |-> <<34, 195, 34>>]

\* what the input stream produces in a run
Streams ==
  { <<>>,
    chromeMessage(Payload.seven),
    chromeMessage(Payload.eacute),
    chromeMessage(Payload.brace),
    chromeMessage(Payload.cut),
    chromeMessage(Payload.object),
    chromeMessage(Payload.seven) \o chromeMessage(Payload.array),
    chromeMessage(Payload.array) \o chromeMessage(Payload.seven),
    chromeMessage(Payload.brace) \o chromeMessage(Payload.seven),
    chromeMessage(Payload.seven) \o chromeMessage(Payload.brace),
    <<0, 0, 0, 0>> \o chromeMessage(Payload.seven),
    <<0, 0, 0, 128>> \o chromeMessage(Payload.seven),
    <<7, 0, 0, 0>> \o chromeMessage(Payload.seven),
    SubSeq(chromeMessage(Payload.seven), 1, 3) }

\* what the input stream produces in a run that also emits; when it is
\* nothing, the peer may echo what the bridge sent
EchoStreams ==
  { <<>>,
    chromeMessage(Payload.seven),
    chromeMessage(Payload.brace) }

\* the data emit() is called with
EmitData ==
  { Num(7), Str(<<233>>), Null, NaN, Undefined, Cyclic }

\* the arguments of the process: those of the tests, and others with an
\* equals sign
Argv ==
  { <<<<>>, <<>>, Arg.origin>>,
    <<<<>>, <<>>, Arg.origin, Arg.option \o Arg.handle>>,
    <<<<>>, <<>>, Arg.origin, Arg.invalid>>,
    <<<<>>, <<>>, Arg.origin, Arg.option>>,
    <<<<>>, <<>>, Arg.origin, Arg.option \o Arg.letters>>,
    <<<<>>, <<>>, Arg.origin, Arg.prefix \o Arg.option \o Arg.five>>,
    <<<<>>, <<>>, Arg.origin, Arg.option \o Arg.five
                                \o <<Arg.equals>> \o Arg.six>>,
    <<<<>>, <<>>>> }

\* the arguments Chrome gives the host
ChromeArgv == <<<<>>, <<>>, Arg.origin, Arg.option \o Arg.handle>>

InitWith(streams) ==
  /\ args \in Argv
  /\ origin = parseAndAssignArgs(args).origin
  /\ parentWindow = parseAndAssignArgs(args).parentWindow
  /\ hasNextMessageLength = FALSE
  /\ nextMessageLength = UInt32(0)
  /\ nextMessageBuffer = <<>>
  /\ listening = TRUE
  /\ mirrorInputTo \in BOOLEAN
  /\ mirrorOutputTo \in BOOLEAN
  /\ input \in streams
  /\ inputChunks = <<>>
  /\ inputEnded = FALSE
  /\ inputMirror = <<>>
  /\ outputProxy = <<>>
  /\ output = <<>>
  /\ outputMirror = <<>>
  /\ calls = <<>>
  /\ emits = <<>>
  /\ lastOp = "new"

\* the bridge while a handler runs: its fields, the invocations so far, the
\* number of the chunk being handled, and the invocation in which the
\* application's handler calls close() (0: in none)
Bridge(chunk, closeAt) ==
  [has |-> hasNextMessageLength, len |-> nextMessageLength,
   buf |-> nextMessageBuffer, listening |-> listening, calls |-> calls,
   chunk |-> chunk, closeAt |-> closeAt,
   pushAt |-> 0, pushN |-> 0, pending |-> <<>>, pushed |-> <<>>]

\* close() that leaves the buffer as it is
close_keepsBuffer(m) ==
  [m EXCEPT !.listening = FALSE, !.has = FALSE, !.len = UInt32(0)]

\* close() that forgets to clear the length flag
close_keepsFlag(m) ==
  [m EXCEPT !.listening = FALSE, !.len = UInt32(0), !.buf = <<>>]

\* close()
close(m) ==
  [m EXCEPT !.listening = FALSE, !.has = FALSE, !.len = UInt32(0),
            !.buf = <<>>]

RECURSIVE parseNextMessage(_)
RECURSIVE onDataChunk(_, _)

\* The handler makes the input emit 'data' with its next bytes, before it
\* returns: onDataChunk is called within the handler, if it still listens.
Deliver(m) ==
  LET chunk == SubSeq(m.pending, 1, m.pushN)
      next == [m EXCEPT !.pending = Slice(m.pending, m.pushN),
                        !.pushed = Append(m.pushed, chunk),
                        !.chunk = m.chunk + 1]
  IN IF m.listening THEN onDataChunk(next, chunk) ELSE next

\* an invocation of a handler of the options, in which the application may
\* close the bridge, or make the input deliver a chunk
Invoke(m, call) ==
  LET made == [m EXCEPT !.calls = Append(m.calls, call)]
      done == IF Len(made.calls) = m.closeAt THEN close(made) ELSE made
  IN IF Len(made.calls) = m.pushAt THEN Deliver(done) ELSE done

\* the invocations: the handler and its arguments, the number of the chunk
\* that is being handled, whether close() was called before, and the flag
\* and the buffer of the decoder as the handler finds them
OnMessage(m, message) ==
  [type |-> "message", value |-> message,
   chunk |-> m.chunk, closed |-> ~m.listening, has |-> m.has, buf |-> m.buf]
OnError(m, errType, data) ==
  [type |-> "error", errType |-> errType, data |-> data,
   chunk |-> m.chunk, closed |-> ~m.listening, has |-> m.has, buf |-> m.buf]
OnEnd(m) ==
  [type |-> "end", chunk |-> m.chunk, closed |-> ~m.listening,
   has |-> m.has, buf |-> m.buf]

\* parseNextMessage() that does not look for a further message after it
\* has delivered one
parseNextMessage_once(m) ==
  LET m1 == IF ~m.has /\ Len(m.buf) >= 4
            THEN [m EXCEPT !.len = ReadUInt32LE(m.buf), !.has = TRUE,
                           !.buf = Slice(m.buf, 4)]
            ELSE m
  IN IF m1.has /\ AtLeast(Len(m1.buf), m1.len)
     THEN LET messageBuffer == SubSeq(m1.buf, 1, AsLength(m1.len))
              m2 == [m1 EXCEPT !.buf = Slice(m1.buf, AsLength(m1.len)),
                               !.has = FALSE]
              messageData == BufferToString(messageBuffer)
              message == JSONParse(messageData)
          IN IF message.ok
             THEN Invoke(m2, OnMessage(m2, message.value))
             ELSE Invoke(m2, OnError(m2, "RECEIVE_ERROR", messageData))
     ELSE m1

\* parseNextMessage() that returns from its catch block without parsing on
RECURSIVE parseNextMessage_returnsOnError(_)
parseNextMessage_returnsOnError(m) ==
  LET m1 == IF ~m.has /\ Len(m.buf) >= 4
            THEN [m EXCEPT !.len = ReadUInt32LE(m.buf), !.has = TRUE,
                           !.buf = Slice(m.buf, 4)]
            ELSE m
  IN IF m1.has /\ AtLeast(Len(m1.buf), m1.len)
     THEN LET messageBuffer == SubSeq(m1.buf, 1, AsLength(m1.len))
              m2 == [m1 EXCEPT !.buf = Slice(m1.buf, AsLength(m1.len)),
                               !.has = FALSE]
              messageData == BufferToString(messageBuffer)
              message == JSONParse(messageData)
          IN IF message.ok
             THEN parseNextMessage_returnsOnError(
                    Invoke(m2, OnMessage(m2, message.value)))
             ELSE Invoke(m2, OnError(m2, "RECEIVE_ERROR", messageData))
     ELSE m1

\* parseNextMessage() that gives up what is buffered behind a payload that
\* is not JSON
RECURSIVE parseNextMessage_dropsAfterError(_)
parseNextMessage_dropsAfterError(m) ==
  LET m1 == IF ~m.has /\ Len(m.buf) >= 4
            THEN [m EXCEPT !.len = ReadUInt32LE(m.buf), !.has = TRUE,
                           !.buf = Slice(m.buf, 4)]
            ELSE m
  IN IF m1.has /\ AtLeast(Len(m1.buf), m1.len)
     THEN LET messageBuffer == SubSeq(m1.buf, 1, AsLength(m1.len))
              m2 == [m1 EXCEPT !.buf = Slice(m1.buf, AsLength(m1.len)),
                               !.has = FALSE]
              messageData == BufferToString(messageBuffer)
              message == JSONParse(messageData)
          IN IF message.ok
             THEN parseNextMessage_dropsAfterError(
                    Invoke(m2, OnMessage(m2, message.value)))
             ELSE Invoke([m2 EXCEPT !.buf = <<>>],
                         OnError(m2, "RECEIVE_ERROR", messageData))
     ELSE m1

\* parseNextMessage() that leaves the bytes of the length in the buffer
RECURSIVE parseNextMessage_keepsLength(_)
parseNextMessage_keepsLength(m) ==
  LET m1 == IF ~m.has /\ Len(m.buf) >= 4
            THEN [m EXCEPT !.len = ReadUInt32LE(m.buf), !.has = TRUE]
            ELSE m
  IN IF m1.has /\ AtLeast(Len(m1.buf), m1.len)
     THEN LET messageBuffer == SubSeq(m1.buf, 1, AsLength(m1.len))
              m2 == [m1 EXCEPT !.buf = Slice(m1.buf, AsLength(m1.len)),
                               !.has = FALSE]
              messageData == BufferToString(messageBuffer)
              message == JSONParse(messageData)
          IN IF message.ok
             THEN parseNextMessage_keepsLength(
                    Invoke(m2, OnMessage(m2, message.value)))
             ELSE parseNextMessage_keepsLength(
                    Invoke(m2, OnError(m2, "RECEIVE_ERROR", messageData)))
     ELSE m1

\* parseNextMessage() that takes a length of 0 for no length
RECURSIVE parseNextMessage_waitsOnZero(_)
parseNextMessage_waitsOnZero(m) ==
  LET m1 == IF ~m.has /\ Len(m.buf) >= 4
            THEN [m EXCEPT !.len = ReadUInt32LE(m.buf), !.has = TRUE,
                           !.buf = Slice(m.buf, 4)]
            ELSE m
  IN IF m1.has /\ m1.len # UInt32(0) /\ AtLeast(Len(m1.buf), m1.len)
     THEN LET messageBuffer == SubSeq(m1.buf, 1, AsLength(m1.len))
              m2 == [m1 EXCEPT !.buf = Slice(m1.buf, AsLength(m1.len)),
                               !.has = FALSE]
              messageData == BufferToString(messageBuffer)
              message == JSONParse(messageData)
          IN IF message.ok
             THEN parseNextMessage_waitsOnZero(
                    Invoke(m2, OnMessage(m2, message.value)))
             ELSE parseNextMessage_waitsOnZero(
                    Invoke(m2, OnError(m2, "RECEIVE_ERROR", messageData)))
     ELSE m1

\* parseNextMessage() that invokes the handler before it takes the message
\* out of the buffer
RECURSIVE parseNextMessage_deliversFirst(_)
parseNextMessage_deliversFirst(m) ==
  LET m1 == IF ~m.has /\ Len(m.buf) >= 4
            THEN [m EXCEPT !.len = ReadUInt32LE(m.buf), !.has = TRUE,
                           !.buf = Slice(m.buf, 4)]
            ELSE m
  IN IF m1.has /\ AtLeast(Len(m1.buf), m1.len)
     THEN LET messageBuffer == SubSeq(m1.buf, 1, AsLength(m1.len))
              messageData == BufferToString(messageBuffer)
              message == JSONParse(messageData)
              m2 == IF message.ok
                    THEN Invoke(m1, OnMessage(m1, message.value))
                    ELSE Invoke(m1, OnError(m1, "RECEIVE_ERROR", messageData))
          IN parseNextMessage_deliversFirst(
               [m2 EXCEPT !.buf = Slice(m2.buf, AsLength(m1.len)),
                          !.has = FALSE])
     ELSE m1

\* parseNextMessage()
parseNextMessage(m) ==
  LET m1 == IF ~m.has /\ Len(m.buf) >= 4
            THEN [m EXCEPT !.len = ReadUInt32LE(m.buf), !.has = TRUE,
                           !.buf = Slice(m.buf, 4)]
            ELSE m
  IN IF m1.has /\ AtLeast(Len(m1.buf), m1.len)
     THEN LET messageBuffer == SubSeq(m1.buf, 1, AsLength(m1.len))
              m2 == [m1 EXCEPT !.buf = Slice(m1.buf, AsLength(m1.len)),
                               !.has = FALSE]
              messageData == BufferToString(messageBuffer)
              message == JSONParse(messageData)
          IN IF message.ok
             THEN parseNextMessage(Invoke(m2, OnMessage(m2, message.value)))
             ELSE parseNextMessage(
                    Invoke(m2, OnError(m2, "RECEIVE_ERROR", messageData)))
     ELSE m1

\* onDataChunk(chunk) that parses the chunk alone
onDataChunk_replaces(m, chunk) ==
  parseNextMessage([m EXCEPT !.buf = chunk])

\* onDataChunk(chunk)
onDataChunk(m, chunk) ==
  parseNextMessage([m EXCEPT !.buf = m.buf \o chunk])

\* The input mirror fed by onDataChunk instead of a pipe: it gets the chunks
\* the decoder gets.
InputData_mirrorsDecoded(n, mirrorCloses, closeAt, pushAt, pushN) ==
  /\ ~inputEnded
  /\ Len(inputChunks) < MaxChunks
  /\ n \in 1..Len(input)
  /\ mirrorCloses => mirrorInputTo
  /\ pushN <= Len(input) - n
  /\ (pushAt = 0) = (pushN = 0)
  /\ LET chunk == SubSeq(input, 1, n)
         m0 == [Bridge(Len(inputChunks) + 1,
                       IF closeAt = 0 THEN 0 ELSE Len(calls) + closeAt)
                EXCEPT !.pushAt = IF pushAt = 0 THEN 0 ELSE Len(calls) + pushAt,
                       !.pushN = pushN,
                       !.pending = Slice(input, n)]
         m1 == IF mirrorCloses THEN close(m0) ELSE m0
         m2 == IF listening THEN onDataChunk(m1, chunk) ELSE m1
     IN /\ input' = m2.pending
        /\ inputChunks' = Append(inputChunks, chunk) \o m2.pushed
        /\ inputMirror' = IF mirrorInputTo /\ listening
                          THEN Append(inputMirror, chunk)
                          ELSE inputMirror
        /\ hasNextMessageLength' = m2.has
        /\ nextMessageLength' = m2.len
        /\ nextMessageBuffer' = m2.buf
        /\ listening' = m2.listening
        /\ calls' = m2.calls
  /\ inputEnded' = inputEnded
  /\ lastOp' = "data"
  /\ UNCHANGED <<outputVars, optionVars, emits>>

\* The input emits 'data' with the next n bytes.  Its listeners at that
\* moment are called in the order they were added: the pipe to the input
\* mirror, then onDataChunk.  What reads the mirror may close the bridge
\* while the chunk is written to it; a listener removed during the emit is
\* still called for this chunk.
InputData(n, mirrorCloses, closeAt, pushAt, pushN) ==
  /\ ~inputEnded
  /\ Len(inputChunks) < MaxChunks
  /\ n \in 1..Len(input)
  /\ mirrorCloses => mirrorInputTo
  /\ pushN <= Len(input) - n
  /\ (pushAt = 0) = (pushN = 0)
  /\ LET chunk == SubSeq(input, 1, n)
         m0 == [Bridge(Len(inputChunks) + 1,
                       IF closeAt = 0 THEN 0 ELSE Len(calls) + closeAt)
                EXCEPT !.pushAt = IF pushAt = 0 THEN 0 ELSE Len(calls) + pushAt,
                       !.pushN = pushN,
                       !.pending = Slice(input, n)]
         m1 == IF mirrorCloses THEN close(m0) ELSE m0
         m2 == IF listening THEN onDataChunk(m1, chunk) ELSE m1
     IN /\ input' = m2.pending
        /\ inputChunks' = Append(inputChunks, chunk) \o m2.pushed
        /\ inputMirror' = IF mirrorInputTo
                          THEN Append(inputMirror, chunk) \o m2.pushed
                          ELSE inputMirror
        /\ hasNextMessageLength' = m2.has
        /\ nextMessageLength' = m2.len
        /\ nextMessageBuffer' = m2.buf
        /\ listening' = m2.listening
        /\ calls' = m2.calls
  /\ inputEnded' = inputEnded
  /\ lastOp' = "data"
  /\ UNCHANGED <<outputVars, optionVars, emits>>

\* An 'end' listener that close() removes with the 'data' listener.
InputEnd_unlessClosed ==
  /\ ~inputEnded
  /\ input = <<>>
  /\ inputEnded' = TRUE
  /\ LET m == Bridge(Len(inputChunks), 0)
     IN calls' = IF listening THEN Invoke(m, OnEnd(m)).calls ELSE calls
  /\ lastOp' = "end"
  /\ UNCHANGED <<decoderVars, listening, input, inputChunks, inputMirror,
                 outputVars, optionVars, emits>>

\* The input emits 'end', after its last chunk.
InputEnd ==
  /\ ~inputEnded
  /\ input = <<>>
  /\ inputEnded' = TRUE
  /\ LET m == Bridge(Len(inputChunks), 0)
     IN calls' = Invoke(m, OnEnd(m)).calls
  /\ lastOp' = "end"
  /\ UNCHANGED <<decoderVars, listening, input, inputChunks, inputMirror,
                 outputVars, optionVars, emits>>

\* The application calls close().
Close ==
  LET m == close(Bridge(Len(inputChunks), 0))
  IN /\ hasNextMessageLength' = m.has
     /\ nextMessageLength' = m.len
     /\ nextMessageBuffer' = m.buf
     /\ listening' = m.listening
     /\ lastOp' = "close"
     /\ UNCHANGED <<inputVars, outputVars, optionVars, calls, emits>>

\* emit(data) that writes the length field before it serialises the data
emit_lengthFirst(data) ==
  /\ LET json == JSONStringify(data)
         message == IF json.kind = "text" THEN BufferFrom(json.text) ELSE <<>>
         length == WriteUInt32LE(Len(message))
         frame == IF json.kind = "text" THEN length \o message ELSE length
     IN /\ emits' = Append(emits,
                      [data |-> data,
                       threw |-> IF json.kind = "text" THEN "none"
                                 ELSE "SEND_ERROR"])
        /\ IF mirrorOutputTo
           THEN /\ outputProxy' = Append(outputProxy, frame)
                /\ UNCHANGED <<output, outputMirror>>
           ELSE /\ output' = Append(output, frame)
                /\ UNCHANGED <<outputProxy, outputMirror>>
  /\ lastOp' = "emit"
  /\ UNCHANGED <<decoderVars, listening, inputVars, optionVars, calls>>

\* emit(data) that takes the length of the string for the length of the
\* message
emit_stringLength(data) ==
  /\ LET json == JSONStringify(data)
     IN IF json.kind # "text"
        THEN /\ emits' = Append(emits, [data |-> data, threw |-> "SEND_ERROR"])
             /\ UNCHANGED outputVars
        ELSE LET message == BufferFrom(json.text)
                 length == WriteUInt32LE(Len(json.text))
                 frame == length \o message
             IN /\ emits' = Append(emits, [data |-> data, threw |-> "none"])
                /\ IF mirrorOutputTo
                   THEN /\ outputProxy' = Append(outputProxy, frame)
                        /\ UNCHANGED <<output, outputMirror>>
                   ELSE /\ output' = Append(output, frame)
                        /\ UNCHANGED <<outputProxy, outputMirror>>
  /\ lastOp' = "emit"
  /\ UNCHANGED <<decoderVars, listening, inputVars, optionVars, calls>>

\* emit(data) that hands its error to the onError of the options
emit_reportsError(data) ==
  /\ LET json == JSONStringify(data)
         m == Bridge(Len(inputChunks), 0)
     IN IF json.kind # "text"
        THEN /\ emits' = Append(emits, [data |-> data, threw |-> "SEND_ERROR"])
             /\ calls' = Invoke(m, OnError(m, "SEND_ERROR", <<>>)).calls
             /\ UNCHANGED outputVars
        ELSE LET message == BufferFrom(json.text)
                 length == WriteUInt32LE(Len(message))
                 frame == length \o message
             IN /\ emits' = Append(emits, [data |-> data, threw |-> "none"])
                /\ calls' = calls
                /\ IF mirrorOutputTo
                   THEN /\ outputProxy' = Append(outputProxy, frame)
                        /\ UNCHANGED <<output, outputMirror>>
                   ELSE /\ output' = Append(output, frame)
                        /\ UNCHANGED <<outputProxy, outputMirror>>
  /\ lastOp' = "emit"
  /\ UNCHANGED <<decoderVars, listening, inputVars, optionVars>>

\* emit(data) that builds its message in nextMessageBuffer
emit_sharesBuffer(data) ==
  /\ LET json == JSONStringify(data)
     IN IF json.kind # "text"
        THEN /\ emits' = Append(emits, [data |-> data, threw |-> "SEND_ERROR"])
             /\ UNCHANGED <<outputVars, nextMessageBuffer>>
        ELSE LET message == BufferFrom(json.text)
                 length == WriteUInt32LE(Len(message))
                 frame == length \o message
             IN /\ emits' = Append(emits, [data |-> data, threw |-> "none"])
                /\ nextMessageBuffer' = message
                /\ IF mirrorOutputTo
                   THEN /\ outputProxy' = Append(outputProxy, frame)
                        /\ UNCHANGED <<output, outputMirror>>
                   ELSE /\ output' = Append(output, frame)
                        /\ UNCHANGED <<outputProxy, outputMirror>>
  /\ lastOp' = "emit"
  /\ UNCHANGED <<hasNextMessageLength, nextMessageLength, listening,
                 inputVars, optionVars, calls>>

\* emit(data) that writes nothing once close() has been called
emit_unlessClosed(data) ==
  /\ LET json == JSONStringify(data)
     IN IF json.kind # "text"
        THEN /\ emits' = Append(emits, [data |-> data, threw |-> "SEND_ERROR"])
             /\ UNCHANGED outputVars
        ELSE LET message == BufferFrom(json.text)
                 length == WriteUInt32LE(Len(message))
                 frame == length \o message
             IN /\ emits' = Append(emits, [data |-> data, threw |-> "none"])
                /\ IF ~listening
                   THEN UNCHANGED outputVars
                   ELSE IF mirrorOutputTo
                   THEN /\ outputProxy' = Append(outputProxy, frame)
                        /\ UNCHANGED <<output, outputMirror>>
                   ELSE /\ output' = Append(output, frame)
                        /\ UNCHANGED <<outputProxy, outputMirror>>
  /\ lastOp' = "emit"
  /\ UNCHANGED <<decoderVars, listening, inputVars, optionVars, calls>>

\* The application calls emit(data).
emit(data) ==
  /\ LET json == JSONStringify(data)
     IN IF json.kind # "text"
        THEN \* JSON.stringify() or Buffer.from() threw inside the try
             /\ emits' = Append(emits, [data |-> data, threw |-> "SEND_ERROR"])
             /\ UNCHANGED outputVars
        ELSE LET message == BufferFrom(json.text)
                 length == WriteUInt32LE(Len(message))
                 frame == length \o message
             IN /\ emits' = Append(emits, [data |-> data, threw |-> "none"])
                /\ IF mirrorOutputTo
                   THEN /\ outputProxy' = Append(outputProxy, frame)
                        /\ UNCHANGED <<output, outputMirror>>
                   ELSE /\ output' = Append(output, frame)
                        /\ UNCHANGED <<outputProxy, outputMirror>>
  /\ lastOp' = "emit"
  /\ UNCHANGED <<decoderVars, listening, inputVars, optionVars, calls>>

\* A PassThrough that is piped to the output mirror alone.
OutputFlow_mirrorOnly ==
  /\ outputProxy # <<>>
  /\ outputProxy' = Tail(outputProxy)
  /\ output' = output
  /\ outputMirror' = Append(outputMirror, Head(outputProxy))
  /\ lastOp' = "flow"
  /\ UNCHANGED <<decoderVars, listening, inputVars, optionVars, calls, emits>>

\* The PassThrough before the output emits 'data': both pipes write the
\* buffer, to the output and to the output mirror.
OutputFlow ==
  /\ outputProxy # <<>>
  /\ outputProxy' = Tail(outputProxy)
  /\ output' = Append(output, Head(outputProxy))
  /\ outputMirror' = Append(outputMirror, Head(outputProxy))
  /\ lastOp' = "flow"
  /\ UNCHANGED <<decoderVars, listening, inputVars, optionVars, calls, emits>>

\* The peer sends back the last buffer it got from the output, as the only
\* bytes of the input.
PeerEcho ==
  /\ ~inputEnded
  /\ input = <<>>
  /\ inputChunks = <<>>
  /\ output # <<>>
  /\ input' = output[Len(output)]
  /\ lastOp' = "echo"
  /\ UNCHANGED <<decoderVars, listening, inputChunks, inputEnded, inputMirror,
                 outputVars, optionVars, calls, emits>>

Receive ==
  \E n \in 1..Len(input), mirrorCloses \in BOOLEAN, closeAt \in 0..MaxReact :
    InputData(n, mirrorCloses, closeAt, 0, 0)

\* a chunk of the input, in one of whose invocations the handler makes the
\* input deliver the next chunk
ReceiveNested ==
  \E n \in 1..Len(input), closeAt \in 0..MaxReact, pushAt \in 1..MaxReact,
     pushN \in 1..Len(input) :
    InputData(n, FALSE, closeAt, pushAt, pushN)

Send == Len(emits) < MaxEmits /\ \E data \in EmitData : emit(data)

Exchange == Len(emits) < MaxExchange /\ \E data \in EmitData : emit(data)

\* the bridge between a peer and an application that receives and sends
Init == InitWith(EchoStreams) /\ args = ChromeArgv
Next == Receive \/ InputEnd \/ Close \/ Exchange \/ OutputFlow \/ PeerEcho
Spec == Init /\ [][Next]_vars

\* the receiving side alone
InitReceive == InitWith(Streams) /\ ~mirrorOutputTo /\ args = ChromeArgv
NextReceive == Receive \/ InputEnd \/ Close
SpecReceive == InitReceive /\ [][NextReceive]_vars

\* the sending side alone
InitSend == InitWith({<<>>}) /\ ~mirrorInputTo /\ args = ChromeArgv
NextSend == Send \/ OutputFlow
SpecSend == InitSend /\ [][NextSend]_vars

\* the receiving side with handlers that deliver chunks themselves
NestedStreams ==
  { chromeMessage(Payload.brace) \o chromeMessage(Payload.seven),
    chromeMessage(Payload.array) \o chromeMessage(Payload.brace)
      \o chromeMessage(Payload.seven) }
InitNested ==
  /\ InitWith(NestedStreams)
  /\ ~mirrorInputTo /\ ~mirrorOutputTo /\ args = ChromeArgv
NextNested == Receive \/ ReceiveNested \/ InputEnd \/ Close
SpecNested == InitNested /\ [][NextNested]_vars

\* the bridge constructed with any of the arguments, sending
InitArgs == InitWith({<<>>})
NextArgs == Send \/ OutputFlow
SpecArgs == InitArgs /\ [][NextArgs]_vars

(***************************************************************************)
(* What the claims speak of.                                               *)
(***************************************************************************)
RECURSIVE Concat(_)
Concat(buffers) ==
  IF buffers = <<>> THEN <<>> ELSE Head(buffers) \o Concat(Tail(buffers))

\* the bytes the input has produced, and all the bytes of its run
Produced == Concat(inputChunks)
Whole == Produced \o input

IsData(call) == call.type # "end"
DataCalls == SelectSeq(calls, IsData)

IsSent(e) == e.threw = "none"
Sent == SelectSeq(emits, IsSent)

\* the valid frames of Streams: the payload and the value it is the JSON of
ValidFrames ==
  { [payload |-> Payload.seven, value |-> Num(7)],
    [payload |-> Payload.eacute, value |-> Str(<<233>>)],
    [payload |-> Payload.object,
     value |-> Obj(<<[k |-> <<97>>, v |-> Num(7)]>>)],
    [payload |-> Payload.array, value |-> Arr(<<>>)] }

\* the values of JSON: null, booleans, numbers, strings, and the arrays and
\* objects made of them
IsJSONValue(v) == v.t \in {"null", "bool", "num", "str", "arr", "obj"}

IsMessage(call, value) == call.type = "message" /\ call.value = value

(***************************************************************************)
(* C1, as stated: for every value v that emit(v) serialises, feeding the   *)
(* decoder the bytes emit(v) wrote results in exactly one onMessage call,  *)
(* with a value equal to v, and in no onError call.  emit(NaN) writes the  *)
(* frame of null.                                                          *)
(***************************************************************************)
RoundTripOfAllSerialised ==
  \A i \in DOMAIN output :
    (Whole = output[i] /\ input = <<>> /\ listening)
      => /\ Len(DataCalls) = 1
         /\ IsMessage(DataCalls[1], Sent[i].data)

(***************************************************************************)
(* C1, amended: for every JSON value v, feeding the decoder the bytes      *)
(* emit(v) wrote results in exactly one onMessage call, with a value equal *)
(* to v, and in no onError call.                                           *)
(***************************************************************************)
RoundTrip ==
  \A i \in DOMAIN output :
    (Whole = output[i] /\ input = <<>> /\ listening /\ IsJSONValue(Sent[i].data))
      => /\ Len(DataCalls) = 1
         /\ IsMessage(DataCalls[1], Sent[i].data)

\* the peer has echoed the frame of a string with a two-byte character, and
\* the decoder has got it in two chunks
RoundTripWitness ==
  /\ output # <<>> /\ Whole = output[1] /\ input = <<>> /\ listening
  /\ Sent[1].data = Str(<<233>>)
  /\ Len(inputChunks) = 2
  /\ Len(DataCalls) = 1

(***************************************************************************)
(* C2: when the bytes of one valid frame reach the decoder in any number   *)
(* of non-empty chunks, cut anywhere, no handler is invoked before the     *)
(* chunk that completes the frame, and that chunk invokes onMessage once,  *)
(* with the value of the frame, as one chunk with the whole frame does.    *)
(***************************************************************************)
ChunkBoundaryIndependence ==
  \A f \in ValidFrames :
    (Whole = chromeMessage(f.payload) /\ listening)
      => IF input # <<>> THEN DataCalls = <<>>
         ELSE /\ Len(DataCalls) = 1
              /\ IsMessage(DataCalls[1], f.value)
              /\ DataCalls[1].chunk = Len(inputChunks)

\* a frame that came in three chunks, the first cut inside the length field
ChunkBoundaryWitness ==
  /\ Whole = chromeMessage(Payload.eacute) /\ listening /\ input = <<>>
  /\ Len(inputChunks) = 3
  /\ Len(inputChunks[1]) < 4
  /\ Len(DataCalls) = 1

(***************************************************************************)
(* C3: one chunk that holds two valid frames invokes onMessage twice while *)
(* it is handled, first for the first frame and then for the second.       *)
(***************************************************************************)
MultiFrameBatching ==
  \A f \in ValidFrames, g \in ValidFrames :
    (inputChunks = <<chromeMessage(f.payload) \o chromeMessage(g.payload)>>
       /\ listening)
      => /\ Len(DataCalls) = 2
         /\ IsMessage(DataCalls[1], f.value) /\ DataCalls[1].chunk = 1
         /\ IsMessage(DataCalls[2], g.value) /\ DataCalls[2].chunk = 1

MultiFrameWitness ==
  /\ inputChunks = <<chromeMessage(Payload.seven) \o chromeMessage(Payload.array)>>
  /\ listening
  /\ lastOp = "data"
  /\ Len(DataCalls) = 2

(***************************************************************************)
(* C4: a complete frame whose payload is not JSON invokes onError once,    *)
(* with a RECEIVE_ERROR and the text of the payload, and does not invoke   *)
(* onMessage; the decoder then awaits a length, and a valid frame that     *)
(* follows, in the same chunk or a later one, is delivered to onMessage.   *)
(***************************************************************************)
IsReceiveError(call, data) ==
  call.type = "error" /\ call.errType = "RECEIVE_ERROR" /\ call.data = data

MalformedPayloadIsolation ==
  \A rest \in {<<>>, chromeMessage(Payload.seven)} :
    (Whole = chromeMessage(Payload.brace) \o rest /\ listening)
      => /\ Len(Produced) < 5 => DataCalls = <<>>
         /\ Len(Produced) >= 5 =>
              /\ Len(DataCalls) >= 1
              /\ IsReceiveError(DataCalls[1], <<Ch.lbrace>>)
         /\ Len(Produced) = 5 =>
              ~hasNextMessageLength /\ nextMessageBuffer = <<>>
         /\ Len(DataCalls) = (IF Len(Produced) < 5 THEN 0
                              ELSE IF input = <<>> /\ rest # <<>> THEN 2 ELSE 1)
         /\ Len(DataCalls) = 2 =>
              IsMessage(DataCalls[2], Num(7))
              /\ DataCalls[2].chunk = Len(inputChunks)

\* the malformed frame and the valid frame came in one chunk
MalformedSameChunkWitness ==
  /\ inputChunks = <<chromeMessage(Payload.brace) \o chromeMessage(Payload.seven)>>
  /\ listening
  /\ Len(DataCalls) = 2
  /\ DataCalls[1].type = "error"
  /\ DataCalls[2].type = "message"

(***************************************************************************)
(* C5: once close() has been called, no chunk leads to an invocation of    *)
(* onMessage or onError, also not a chunk that still reaches the chunk     *)
(* handler of the bridge.                                                  *)
(***************************************************************************)
NoDeliveryAfterClose ==
  \A i \in DOMAIN calls : IsData(calls[i]) => ~calls[i].closed

(***************************************************************************)
(* C6: close(), in whatever state the decoder is, leaves an empty buffer,  *)
(* no known length and a pending length of 0; a further close() changes    *)
(* neither the bridge nor the invocations made.                            *)
(***************************************************************************)
CloseResetsDecoder ==
  lastOp = "close"
    => /\ ~hasNextMessageLength
       /\ nextMessageLength = UInt32(0)
       /\ nextMessageBuffer = <<>>
       /\ LET m == Bridge(Len(inputChunks), 0) IN close(m) = m

\* close() was called after six bytes of an eight-byte frame
CloseResetsWitness ==
  /\ lastOp = "close"
  /\ Produced = SubSeq(chromeMessage(Payload.eacute), 1, 6)
  /\ calls = <<>>

(***************************************************************************)
(* C7: emit() of data that cannot be serialised throws a SEND_ERROR and    *)
(* writes nothing: the buffers written to the output, held before it and   *)
(* written to the output mirror are as many as the calls of emit() with    *)
(* data that can be serialised.                                            *)
(***************************************************************************)
Unserialisable == {Undefined, Cyclic}

EncodeFailureWritesNothing ==
  /\ \A i \in DOMAIN emits :
       emits[i].threw = (IF emits[i].data \in Unserialisable
                         THEN "SEND_ERROR" ELSE "none")
  /\ Len(output) + Len(outputProxy)
       = Cardinality({i \in DOMAIN emits : emits[i].data \notin Unserialisable})
  /\ Len(outputMirror) <= Len(output)

\* emit() of a cyclic object after a successful emit(), with an output mirror
EncodeFailureWitness ==
  /\ mirrorOutputTo
  /\ Len(emits) = 2
  /\ emits[1].data = Num(7)
  /\ emits[2] = [data |-> Cyclic, threw |-> "SEND_ERROR"]
  /\ lastOp = "emit"

(***************************************************************************)
(* C8: onEnd has been invoked once when the input has emitted 'end', after *)
(* any number of chunks, and not at all before.                            *)
(***************************************************************************)
EndNotification ==
  Cardinality({i \in DOMAIN calls : calls[i].type = "end"})
    = (IF inputEnded THEN 1 ELSE 0)

\* the input ended inside a frame, after close()
EndNotificationWitness ==
  /\ inputEnded
  /\ ~listening
  /\ Len(inputChunks) >= 2
  /\ Whole = <<7, 0, 0, 0>> \o chromeMessage(Payload.seven)

(***************************************************************************)
(* C9: the chunks written to the input mirror are the chunks the input     *)
(* produced, and the buffers written to the output mirror are the buffers  *)
(* written to the output, in the same order.                               *)
(***************************************************************************)
MirroringFidelity ==
  /\ mirrorInputTo => inputMirror = inputChunks
  /\ mirrorOutputTo => outputMirror = output

\* both mirrors have got something, the input mirror also after close()
MirroringWitness ==
  /\ mirrorInputTo /\ mirrorOutputTo
  /\ ~listening
  /\ Len(inputMirror) >= 2
  /\ Len(outputMirror) >= 1
  /\ Len(DataCalls) = 0

(***************************************************************************)
(* C10: every emit() that does not throw writes one buffer, the four bytes *)
(* of the length followed by the payload, where the length is the number   *)
(* of bytes of the payload; the buffers written are the frames of the data *)
(* emitted, in the order of the calls.                                     *)
(***************************************************************************)
\* the UTF-8 bytes of the JSON text of the data emitted
PayloadOf(data) ==
  CASE data = Num(7) -> Payload.seven
    [] data = Str(<<233>>) -> Payload.eacute
    [] data = Null -> Payload.null
    [] data = NaN -> Payload.null

EmitWritesWholeFrames ==
  LET written == output \o outputProxy
  IN /\ Len(written) = Len(Sent)
     /\ \A i \in DOMAIN written :
          LET payload == PayloadOf(Sent[i].data)
          IN /\ Len(written[i]) = 4 + Len(payload)
             /\ SubSeq(written[i], 1, 4) = <<Len(payload), 0, 0, 0>>
             /\ ReadUInt32LE(written[i]) = UInt32(Len(payload))
             /\ Slice(written[i], 4) = payload

\* two frames written, the second with a character of two bytes
EmitWritesWitness ==
  /\ Len(output) = 2
  /\ Sent[1].data = Num(7)
  /\ Sent[2].data = Str(<<233>>)
  /\ Len(output[2]) = 8

(***************************************************************************)
(* C11: for a stream of complete frames, cut into chunks anywhere, the     *)
(* k-th invocation is for the k-th frame, onMessage with the value of a    *)
(* payload that is JSON and onError with the text of one that is not; the  *)
(* frames that are complete have all been delivered, once and in order.    *)
(***************************************************************************)
\* what the handlers are to get for a payload of Streams
Expected(payload) ==
  CASE payload = Payload.seven -> [type |-> "message", value |-> Num(7)]
    [] payload = Payload.eacute -> [type |-> "message", value |-> Str(<<233>>)]
    [] payload = Payload.object ->
         [type |-> "message", value |-> Obj(<<[k |-> <<97>>, v |-> Num(7)]>>)]
    [] payload = Payload.array -> [type |-> "message", value |-> Arr(<<>>)]
    [] payload = Payload.cut ->
         [type |-> "message", value |-> Str(<<Ch.replacement>>)]
    [] payload = Payload.brace -> [type |-> "error", data |-> <<Ch.lbrace>>]
    [] payload = <<>> -> [type |-> "error", data |-> <<>>]

\* the streams of Streams that are made of complete frames, as the payloads
\* of their frames
FramedStreams ==
  { <<Payload.seven>>, <<Payload.eacute>>, <<Payload.brace>>, <<Payload.cut>>,
    <<Payload.object>>,
    <<Payload.seven, Payload.array>>, <<Payload.array, Payload.seven>>,
    <<Payload.brace, Payload.seven>>, <<Payload.seven, Payload.brace>>,
    << <<>>, Payload.seven >> }

RECURSIVE FrameBytes(_)
FrameBytes(payloads) ==
  IF payloads = <<>> THEN <<>>
  ELSE chromeMessage(Head(payloads)) \o FrameBytes(Tail(payloads))

\* how many of the frames are complete in the first n bytes of their stream
RECURSIVE CompleteFrames(_, _)
CompleteFrames(payloads, n) ==
  IF payloads = <<>> \/ n < 4 + Len(Head(payloads)) THEN 0
  ELSE 1 + CompleteFrames(Tail(payloads), n - 4 - Len(Head(payloads)))

IsExpected(call, e) ==
  /\ call.type = e.type
  /\ IF e.type = "message" THEN call.value = e.value
     ELSE call.errType = "RECEIVE_ERROR" /\ call.data = e.data

DeliveryInStreamOrder ==
  \A frames \in FramedStreams :
    (Whole = FrameBytes(frames) /\ listening)
      => /\ Len(DataCalls) = CompleteFrames(frames, Len(Produced))
         /\ \A k \in DOMAIN DataCalls : IsExpected(DataCalls[k], Expected(frames[k]))

\* a valid frame and a malformed one behind it, in chunks that cut both
DeliveryInOrderWitness ==
  /\ Whole = FrameBytes(<<Payload.seven, Payload.brace>>)
  /\ listening /\ input = <<>>
  /\ Len(inputChunks) = 3
  /\ Len(inputChunks[1]) = 2 /\ Len(inputChunks[2]) = 5
  /\ Len(DataCalls) = 2

(***************************************************************************)
(* C13: between the chunks the decoder has either no length and fewer      *)
(* than four bytes in its buffer, or a length and fewer bytes in its       *)
(* buffer than the length: no complete frame stays in the buffer.          *)
(***************************************************************************)
Quiescence ==
  IF hasNextMessageLength
  THEN ~AtLeast(Len(nextMessageBuffer), nextMessageLength)
  ELSE Len(nextMessageBuffer) < 4

\* a chunk with a whole frame and the length of the next one
QuiescenceWitness ==
  /\ lastOp = "data"
  /\ hasNextMessageLength
  /\ Len(DataCalls) = 1
  /\ Len(inputChunks) = 1
  /\ Len(nextMessageBuffer) = 1

(***************************************************************************)
(* C14: before close(), the bytes received are the bytes consumed, four    *)
(* for every length extracted and the declared length for every payload    *)
(* extracted, followed by the buffer; nothing is consumed twice or lost.   *)
(***************************************************************************)
\* The walk over a byte stream from its start: how many length fields it
\* holds in full, the payloads it holds in full, and the bytes these take.
RECURSIVE Framing(_, _)
Framing(bytes, done) ==
  IF Len(bytes) < 4 THEN done
  ELSE LET small == bytes[3] = 0 /\ bytes[4] = 0
           declared == bytes[1] + 256 * bytes[2]
           counted == [done EXCEPT !.lengths = @ + 1, !.consumed = @ + 4]
       IN IF small /\ Len(bytes) - 4 >= declared
          THEN Framing(Slice(bytes, 4 + declared),
                       [counted EXCEPT !.payloads = @ + 1,
                                       !.consumed = @ + declared])
          ELSE counted

ByteConservation ==
  listening =>
    LET walk == Framing(Produced, [lengths |-> 0, payloads |-> 0,
                                   consumed |-> 0])
    IN /\ walk.payloads = Len(DataCalls)
       /\ walk.lengths = Len(DataCalls) + (IF hasNextMessageLength THEN 1 ELSE 0)
       /\ Len(Produced) = walk.consumed + Len(nextMessageBuffer)
       /\ nextMessageBuffer = Slice(Produced, walk.consumed)

\* a frame and the length of the next one have been received
ByteConservationWitness ==
  /\ listening
  /\ Produced = SubSeq(FrameBytes(<<Payload.brace, Payload.seven>>), 1, 9)
  /\ Len(inputChunks) = 3
  /\ Len(DataCalls) = 1
  /\ hasNextMessageLength
  /\ nextMessageBuffer = <<>>

(***************************************************************************)
(* C15: however a byte stream is cut into chunks, the invocations of       *)
(* onMessage and onError and the state of the decoder are those of the     *)
(* stream received as one chunk.                                           *)
(***************************************************************************)
\* an invocation without the number of its chunk
Arguments(call) ==
  IF call.type = "message" THEN <<"message", call.value>>
  ELSE <<"error", call.errType, call.data>>

ArgumentsOf(invocations) ==
  [i \in DOMAIN invocations |-> Arguments(invocations[i])]

\* a new bridge that has received the bytes as its first chunk
InOneChunk(bytes) ==
  onDataChunk([has |-> FALSE, len |-> UInt32(0), buf |-> <<>>,
               listening |-> TRUE, calls |-> <<>>, chunk |-> 1,
               closeAt |-> 0, pushAt |-> 0, pushN |-> 0, pending |-> <<>>,
               pushed |-> <<>>], bytes)

ChunkingIndependence ==
  (listening /\ inputChunks # <<>>) =>
    LET one == InOneChunk(Produced)
    IN /\ ArgumentsOf(DataCalls) = ArgumentsOf(one.calls)
       /\ hasNextMessageLength = one.has
       /\ nextMessageLength = one.len
       /\ nextMessageBuffer = one.buf

\* a malformed frame and a part of the next frame, in four chunks
ChunkingIndependenceWitness ==
  /\ listening
  /\ Produced = SubSeq(FrameBytes(<<Payload.brace, Payload.seven>>), 1, 8)
  /\ Len(inputChunks) = 4
  /\ Len(DataCalls) = 1

(***************************************************************************)
(* C16: once a length is known, no handler is invoked while fewer bytes    *)
(* than the length are buffered; when fewer ever arrive, nothing is        *)
(* delivered and no error is raised, and a well-formed frame that follows  *)
(* ends up in the buffer, as payload of the pending frame.                 *)
(***************************************************************************)
\* the streams of Streams whose first length is more than what follows it
Overlong ==
  { <<7, 0, 0, 0>> \o chromeMessage(Payload.seven),
    <<0, 0, 0, 128>> \o chromeMessage(Payload.seven) }

Last(s) == s[Len(s)]

TrustedLength ==
  /\ [](Whole \in Overlong /\ listening =>
          /\ DataCalls = <<>>
          /\ Len(Produced) >= 4 =>
               /\ hasNextMessageLength
               /\ nextMessageLength = ReadUInt32LE(Whole)
               /\ nextMessageBuffer = Slice(Produced, 4))
  /\ [][(/\ hasNextMessageLength /\ listening /\ listening'
         /\ Len(inputChunks') = Len(inputChunks) + 1
         /\ ~AtLeast(Len(nextMessageBuffer) + Len(Last(inputChunks')),
                     nextMessageLength))
        => /\ calls' = calls
           /\ hasNextMessageLength'
           /\ nextMessageLength' = nextMessageLength
           /\ nextMessageBuffer' = nextMessageBuffer \o Last(inputChunks')]_vars

\* the input has ended with a whole frame in the buffer, behind a length
\* with the top bit set
TrustedLengthWitness ==
  /\ Whole = <<0, 0, 0, 128>> \o chromeMessage(Payload.seven)
  /\ listening /\ inputEnded
  /\ Len(inputChunks) = 2
  /\ nextMessageBuffer = chromeMessage(Payload.seven)
  /\ DataCalls = <<>>

(***************************************************************************)
(* C19: every invocation of onError has the type RECEIVE_ERROR and the     *)
(* text of a payload, received in full behind its length, that JSON.parse  *)
(* rejects; an emit that throws invokes no handler.                        *)
(***************************************************************************)
\* the text is that of a payload the input has produced behind its length
IsReceivedPayload(data) ==
  \E i \in 1..Len(Produced) - 3 :
    LET length == ReadUInt32LE(SubSeq(Produced, i, i + 3))
    IN /\ AtLeast(Len(Produced) - (i + 3), length)
       /\ data = BufferToString(SubSeq(Produced, i + 4,
                                       i + 3 + AsLength(length)))

IsError(call) == call.type = "error"

OnErrorOnlyReceiveErrors ==
  /\ [](\A k \in DOMAIN calls :
          IsError(calls[k]) =>
            /\ calls[k].errType = "RECEIVE_ERROR"
            /\ ~JSONParse(calls[k].data).ok
            /\ IsReceivedPayload(calls[k].data))
  /\ [][emits' # emits => calls' = calls]_vars

\* an emit has thrown after a malformed payload was reported
OnErrorOnlyReceiveErrorsWitness ==
  /\ lastOp = "emit"
  /\ emits # <<>> /\ ~IsSent(emits[Len(emits)])
  /\ SelectSeq(calls, IsError) # <<>>

(***************************************************************************)
(* C20: emit(), whether it writes or throws, leaves the decoder, the       *)
(* input and the invocations as they are; a chunk of the input leaves the  *)
(* output, its proxy and its mirror as they are.                           *)
(***************************************************************************)
DirectionsIndependent ==
  [][/\ emits' # emits =>
          UNCHANGED <<decoderVars, listening, calls, inputVars>>
     /\ inputChunks' # inputChunks =>
          UNCHANGED <<outputVars, emits>>]_vars

\* emit() has written a frame while a length was pending
DirectionsIndependentWitness ==
  /\ lastOp = "emit"
  /\ hasNextMessageLength
  /\ Sent # <<>>
  /\ output # <<>>

\* a chunk has been decoded after an emit
DirectionsIndependentChunkWitness ==
  /\ lastOp = "data"
  /\ emits # <<>>
  /\ DataCalls # <<>>

(***************************************************************************)
(* C17: when a handler calls close() during its invocation, the frames     *)
(* that follow in the same chunk are not delivered, and the decoder is in  *)
(* its initial state when onDataChunk returns.                             *)
(***************************************************************************)
\* the invocations made in this step
NewCalls == SubSeq(calls', Len(calls) + 1, Len(calls'))

\* this step is a chunk in which a handler has called close()
ClosedByHandler ==
  /\ Len(inputChunks') = Len(inputChunks) + 1
  /\ listening /\ ~listening'
  /\ NewCalls # <<>>
  /\ ~NewCalls[1].closed

ReentrantClose ==
  [][ClosedByHandler =>
       /\ \A k \in DOMAIN NewCalls : ~NewCalls[k].closed
       /\ LET open == onDataChunk([Bridge(0, 0) EXCEPT !.calls = <<>>],
                                  Last(inputChunks'))
          IN /\ Len(NewCalls) <= Len(open.calls)
             /\ ArgumentsOf(NewCalls) =
                  SubSeq(ArgumentsOf(open.calls), 1, Len(NewCalls))
       /\ ~hasNextMessageLength'
       /\ nextMessageLength' = UInt32(0)
       /\ nextMessageBuffer' = <<>>]_vars

\* two frames came in one chunk and the handler of the first called close()
ReentrantCloseWitness ==
  /\ ~listening
  /\ lastOp = "data"
  /\ inputChunks = <<FrameBytes(<<Payload.seven, Payload.array>>)>>
  /\ Len(calls) = 1 /\ ~calls[1].closed
  /\ nextMessageBuffer = <<>> /\ ~hasNextMessageLength

(***************************************************************************)
(* C12: origin is the argument at position 2; parentWindow is a number     *)
(* exactly when the argument at position 3 is --parent-window= followed    *)
(* by a decimal number, and then it is that number; when the argument is   *)
(* absent or of another form, parentWindow is undefined.                   *)
(***************************************************************************)
\* the argument at position 3 is --parent-window=<number>
HasParentWindowForm ==
  /\ Len(args) >= 4
  /\ Len(args[4]) > Len(Arg.option)
  /\ SubSeq(args[4], 1, Len(Arg.option)) = Arg.option
  /\ \A i \in (Len(Arg.option) + 1)..Len(args[4]) : IsDigit(args[4][i])

ArgumentParsing ==
  /\ Len(args) >= 3 => origin = Str(args[3])
  /\ IF HasParentWindowForm
     THEN parentWindow = Num(DigitsValue(Slice(args[4], Len(Arg.option))))
     ELSE parentWindow = Undefined

\* the bridge was constructed with --parent-window=abc
ArgumentParsingLetters ==
  /\ args = <<<<>>, <<>>, Arg.origin, Arg.option \o Arg.letters>>
  /\ parentWindow = NaN

(***************************************************************************)
(* C18: whenever a handler is invoked, before close(), the length flag is  *)
(* clear and the buffer holds the bytes received so far behind the frame   *)
(* being delivered; with handlers that close the bridge or make the input  *)
(* deliver a chunk, the invocations are still those of the stream in       *)
(* order and the decoder ends as if the bytes had come in one chunk.       *)
(***************************************************************************)
\* the number of bytes the first k frames of a byte stream take
RECURSIVE FrameEnd(_, _)
FrameEnd(bytes, k) ==
  IF k = 0 THEN 0
  ELSE LET declared == bytes[1] + 256 * bytes[2]
       IN 4 + declared + FrameEnd(Slice(bytes, 4 + declared), k - 1)

ConsistentAtInvocation ==
  /\ \A k \in DOMAIN DataCalls :
       ~DataCalls[k].closed =>
         /\ ~DataCalls[k].has
         /\ DataCalls[k].buf =
              Slice(Concat(SubSeq(inputChunks, 1, DataCalls[k].chunk)),
                    FrameEnd(Whole, k))
  /\ listening =>
       LET one == InOneChunk(Produced)
       IN /\ ArgumentsOf(DataCalls) = ArgumentsOf(one.calls)
          /\ hasNextMessageLength = one.has
          /\ nextMessageBuffer = one.buf

\* the handler of the first of two frames of a chunk has made the input
\* deliver a third frame, which was decoded behind the second within it
ConsistentAtInvocationWitness ==
  /\ listening
  /\ inputChunks = << FrameBytes(<<Payload.array, Payload.brace>>),
                      chromeMessage(Payload.seven) >>
  /\ Len(DataCalls) = 3
  /\ DataCalls[1].chunk = 1 /\ DataCalls[1].buf = chromeMessage(Payload.brace)
  /\ DataCalls[2].chunk = 2 /\ DataCalls[2].buf = chromeMessage(Payload.seven)
  /\ IsMessage(DataCalls[3], Num(7))

(***************************************************************************)
(* C21: emit() of data that can be serialised writes one whole frame, to   *)
(* the output or to the PassThrough before it, also after close() and      *)
(* after the input has ended; close() leaves the output side as it is.     *)
(***************************************************************************)
EmitUnconditional ==
  /\ [][(emits' # emits /\ IsSent(Last(emits'))) =>
          LET frame == chromeMessage(PayloadOf(Last(emits').data))
          IN IF mirrorOutputTo
             THEN outputProxy' = Append(outputProxy, frame)
             ELSE output' = Append(output, frame)]_vars
  /\ [][(lastOp' = "close" \/ (listening /\ ~listening')) =>
          UNCHANGED <<outputVars, emits>>]_vars

\* a frame was written after close() and after the end of the input
EmitUnconditionalWitness ==
  /\ lastOp = "emit"
  /\ ~listening /\ inputEnded
  /\ ~mirrorOutputTo
  /\ Sent # <<>>
  /\ output = <<chromeMessage(PayloadOf(Sent[1].data))>>

(***************************************************************************)
(* C22: when the input emits 'end', onEnd is invoked, also when close()    *)
(* was called before; the decoder and the listener are left as they are.   *)
(***************************************************************************)
EndRoutedAfterClose ==
  [][(~inputEnded /\ inputEnded') =>
       /\ Len(calls') = Len(calls) + 1
       /\ SubSeq(calls', 1, Len(calls)) = calls
       /\ Last(calls').type = "end"
       /\ Last(calls').closed = ~listening
       /\ UNCHANGED <<decoderVars, listening>>]_vars

\* onEnd was invoked on a bridge closed before any chunk came
EndRoutedAfterCloseWitness ==
  /\ inputEnded
  /\ lastOp = "end"
  /\ calls # <<>>
  /\ Last(calls).type = "end" /\ Last(calls).closed
  /\ DataCalls = <<>>
  /\ Produced # <<>>

(***************************************************************************)
(* C23: with mirrors given, every step changes the invocations, the        *)
(* decoder, the listener and the buffers on their way to the output as an  *)
(* operation of a bridge without mirrors does: a chunk, the end, emit() or *)
(* close().  The steps in which what reads the input mirror calls close()  *)
(* while the chunk is written to it are operations of that reader and are  *)
(* left aside (C5).                                                        *)
(***************************************************************************)
\* the buffers written to the output or held by the PassThrough before it
Written == output \o outputProxy

\* what reads the input mirror has called close() during this chunk
MirrorReaderCloses ==
  /\ Len(inputChunks') > Len(inputChunks)
  /\ ~listening'
  /\ IF listening THEN NewCalls = <<>> \/ NewCalls[1].closed
     ELSE decoderVars' # decoderVars

\* the operations of a bridge without mirrors
PlainChunk ==
  /\ Len(inputChunks') = Len(inputChunks) + 1
  /\ \E closeAt \in 0..MaxReact :
       LET m0 == Bridge(Len(inputChunks) + 1,
                        IF closeAt = 0 THEN 0 ELSE Len(calls) + closeAt)
           m == IF listening THEN onDataChunk(m0, Last(inputChunks')) ELSE m0
       IN /\ calls' = m.calls
          /\ hasNextMessageLength' = m.has
          /\ nextMessageLength' = m.len
          /\ nextMessageBuffer' = m.buf
          /\ listening' = m.listening
  /\ UNCHANGED <<Written, emits>>

PlainEnd ==
  /\ ~inputEnded /\ inputEnded'
  /\ LET m == Bridge(Len(inputChunks), 0) IN calls' = Append(calls, OnEnd(m))
  /\ UNCHANGED <<decoderVars, listening, Written, emits>>

PlainClose ==
  /\ ~hasNextMessageLength' /\ nextMessageLength' = UInt32(0)
  /\ nextMessageBuffer' = <<>> /\ ~listening'
  /\ UNCHANGED <<calls, Written, emits, inputChunks, inputEnded>>

PlainEmit ==
  /\ \E data \in EmitData :
       LET json == JSONStringify(data)
       IN IF json.kind = "text"
          THEN /\ emits' = Append(emits, [data |-> data, threw |-> "none"])
               /\ Written' = Append(Written, chromeMessage(BufferFrom(json.text)))
          ELSE /\ emits' = Append(emits, [data |-> data, threw |-> "SEND_ERROR"])
               /\ Written' = Written
  /\ UNCHANGED <<decoderVars, listening, calls, inputChunks, inputEnded>>

ZeroLengthStream == <<0, 0, 0, 0>> \o chromeMessage(Payload.seven)

\* the bytes of the first c chunks
ProducedBy(c) == Concat(SubSeq(inputChunks, 1, c))

ZeroLengthFrame ==
  /\ ~(hasNextMessageLength /\ nextMessageLength = UInt32(0))
  /\ (Whole = ZeroLengthStream /\ listening) =>
       /\ Len(Produced) < 4 => DataCalls = <<>>
       /\ Len(Produced) >= 4 =>
            /\ DataCalls # <<>>
            /\ IsReceiveError(DataCalls[1], <<>>)
            /\ DataCalls[1].errType = "RECEIVE_ERROR"
            /\ Len(ProducedBy(DataCalls[1].chunk)) >= 4
            /\ Len(ProducedBy(DataCalls[1].chunk - 1)) < 4
            /\ \A k \in 2..Len(DataCalls) : DataCalls[k].type = "message"
       /\ Produced = Whole =>
            /\ Len(DataCalls) = 2
            /\ IsMessage(DataCalls[2], Num(7))

\* the four bytes of a length of 0 have come, in two chunks, and nothing else
ZeroLengthWitness ==
  /\ Whole = ZeroLengthStream
  /\ listening
  /\ Produced = <<0, 0, 0, 0>>
  /\ Len(inputChunks) = 2
  /\ Len(DataCalls) = 1
  /\ ~hasNextMessageLength

(***************************************************************************)
(* C25, as stated: in the handling of a chunk, every step of               *)
(* parseNextMessage() that calls parseNextMessage() again has removed at   *)
(* least 4 bytes from the buffer, and the invocations made are at most the *)
(* bytes buffered after the chunk was appended, divided by 4, plus one.    *)
(* A step that starts with the length known removes the payload alone.     *)
(***************************************************************************)
\* this step is a chunk that onDataChunk handles
ChunkHandled ==
  /\ Len(inputChunks') = Len(inputChunks) + 1
  /\ listening

\* the buffer after the chunk was appended; it was reset before when what
\* reads the mirror called close()
Appended ==
  IF NewCalls # <<>> /\ NewCalls[1].closed THEN Last(inputChunks')
  ELSE nextMessageBuffer \o Last(inputChunks')

\* the length was known when the first step began
LengthPending ==
  hasNextMessageLength /\ ~(NewCalls # <<>> /\ NewCalls[1].closed)

\* the bytes the step before the k-th invocation of this chunk has removed
Removed(k) ==
  IF k = 1 THEN Len(Appended) - Len(NewCalls[1].buf)
  ELSE Len(NewCalls[k - 1].buf) - Len(NewCalls[k].buf)

EveryStepRemovesFour ==
  [][ChunkHandled =>
       /\ \A k \in DOMAIN NewCalls : Removed(k) >= 4
       /\ Len(NewCalls) <= Len(Appended) \div 4 + 1]_vars

(***************************************************************************)
(* C25, amended: every step that calls parseNextMessage() again has        *)
(* removed at least 4 bytes, except the first step of a chunk when the     *)
(* length was known before, which has removed the payload, at least 1      *)
(* byte; the invocations made are at most the bytes buffered after the     *)
(* chunk was appended, divided by 4, plus one.                             *)
(***************************************************************************)
ExtractionTerminates ==
  [][ChunkHandled =>
       /\ \A k \in DOMAIN NewCalls :
            Removed(k) >= (IF k = 1 /\ LengthPending THEN 1 ELSE 4)
       /\ LengthPending /\ NewCalls # <<>> =>
            Removed(1) = AsLength(nextMessageLength)
       /\ Len(NewCalls) <= Len(Appended) \div 4 + 1]_vars

\* a chunk with the payload of a pending length and a whole frame behind it
ExtractionTerminatesWitness ==
  /\ listening
  /\ inputChunks = << <<1, 0, 0, 0>>,
                      Payload.seven \o chromeMessage(Payload.array) >>
  /\ Len(DataCalls) = 2
  /\ DataCalls[1].chunk = 2
  /\ DataCalls[1].buf = chromeMessage(Payload.array)
  /\ nextMessageBuffer = <<>>

(***************************************************************************)
(* C26: the pending length is b0 + 256*b1 + 65536*b2 + 16777216*b3 for the *)
(* four bytes b0..b3 of the length field, a number from 0 to 2^32 - 1,     *)
(* also when the top bit of b3 is set; the four bytes written for a length *)
(* are bytes and give that length back under the same rule.                *)
(***************************************************************************)
\* the lengths written: those of one, two and three bytes
WrittenLengths == {0, 1, 7, 255, 256, 65535, 65536, 70000}

\* the four bytes give the number u: without the top bit as integers, with
\* it by the halves of the number, 16777216 * 128 being 2^31
IsLittleEndian(b, u) ==
  /\ u.lo \in 0..65535 /\ u.hi \in 0..65535
  /\ u.lo = b[1] + 256 * b[2]
  /\ IF b[4] < 128
     THEN u.hi * 65536 + u.lo
            = b[1] + 256 * b[2] + 65536 * b[3] + 16777216 * b[4]
     ELSE /\ (u.hi - 32768) * 65536 + u.lo
               = b[1] + 256 * b[2] + 65536 * b[3] + 16777216 * (b[4] - 128)
          /\ u.hi >= 32768
          /\ ~AtLeast(2147483647, u)

LengthIsUInt32LE ==
  /\ (listening /\ hasNextMessageLength) =>
       LET walk == Framing(Produced, [lengths |-> 0, payloads |-> 0,
                                      consumed |-> 0])
       IN IsLittleEndian(SubSeq(Produced, walk.consumed - 3, walk.consumed),
                         nextMessageLength)
  /\ \A n \in WrittenLengths :
       /\ \A i \in 1..4 : WriteUInt32LE(n)[i] \in 0..255
       /\ IsLittleEndian(WriteUInt32LE(n), UInt32(n))
       /\ ReadUInt32LE(WriteUInt32LE(n)) = UInt32(n)
       /\ AsLength(ReadUInt32LE(WriteUInt32LE(n))) = n

\* the length 00 00 00 80 is pending: 2^31
LengthIsUInt32LEWitness ==
  /\ listening /\ hasNextMessageLength
  /\ Produced = <<0, 0, 0, 128>>
  /\ nextMessageLength = [hi |-> 32768, lo |-> 0]
  /\ input = chromeMessage(Payload.seven)

====
